---- MODULE Spec2Model ----
(***************************************************************************)
(* A model of the two crawlers of the repository:                          *)
(*   - src/scrapy/schools/schools/spiders/scrapy_vanilla.py                *)
(*     (CharterSchoolSpider: init_from_csv, the rule-driven crawl,         *)
(*      parse_items, get_text, parse_file);                                *)
(*   - src/scripts/WebScraper.py                                           *)
(*     (readCSV, School.gatherLinks / clickLinks, Link, the main loop).    *)
(*                                                                         *)
(* Strings are sequences of one-character strings, so that split, len,     *)
(* startswith, strip and the regular expressions are computed as the code  *)
(* computes them.                                                          *)
(*                                                                         *)
(* Three specifications share the variables; each leaves the variables of  *)
(* the other parts at their idle values:                                   *)
(*   SpecText  the text normalisation get_text, applied and re-applied;    *)
(*   SpecSeq   the sequential crawler WebScraper.py;                       *)
(*   Spec      the spider scrapy_vanilla.py.                               *)
(***************************************************************************)
EXTENDS Integers, Sequences, FiniteSets, TLC

VARIABLES
    \* ---- get_text (SpecText)
    body,        \* response.body handed to get_text
    tpc,         \* "idle" | "raw" | "once" | "twice"
    out1,        \* get_text(body)
    out2         \* get_text applied to out1

textVars == <<body, tpc, out1, out2>>

VARIABLES
    \* ---- WebScraper.py (SpecSeq)
    spc,         \* where the script is: "idle" | "readCSV" | "gather" | "click"
                 \*   | "write" | "diag" | "final" | "done" | "crashed"
    csvRows,     \* the rows csv.reader yields, the header row first
    ri,          \* rows readCSV has consumed
    schools,     \* the list readCSV builds (School objects, counters included)
    si,          \* index in schools of the school of the main loop
    links,       \* self.links of that school
    li,          \* links the first loop of clickLinks has consumed
    openDrivers, \* browser sessions opened by prepDriver and not closed
    fetchLog,    \* the URLs driver.get loaded for that school, in order
    files,       \* names of the files written under results/<school>/
    totals       \* the module-level counters of lines 280-285

seqVars == <<spc, csvRows, ri, schools, si, links, li, openDrivers, fetchLog,
             files, totals>>

VARIABLES
    \* ---- scrapy_vanilla.py (Spec)
    ppc,            \* "idle" | "init" (the constructor runs init_from_csv)
                    \*   | "ready" | "crawl" | "crashed" (the constructor raised)
    csvInput,       \* the rows csv.reader yields for csv_input, header first
    rowsRead,       \* rows init_from_csv has consumed
    start_urls,     \* self.start_urls
    allowed_domains,\* self.allowed_domains
    domain_to_id,   \* self.domain_to_id, as a set of <<domain, id>>
    pending,        \* the requests the scheduler holds
    seen,           \* the URLs the scheduler's duplicate filter has seen
    fetchCount,     \* per page URL, the responses downloaded for it
    cur,            \* the response parse_items is working on, or NoResponse
    items,          \* the items yielded, in order
    spiderErrors,   \* the callbacks that raised: what Scrapy logs for each
    tempFiles,      \* NamedTemporaryFiles that exist on disk
    docsMet,        \* document links parse_items has met in this crawl
    dirs,           \* the directories that exist under files/
    artifacts,      \* the side artifacts written under files/
    docFetches      \* the calls requests.get(href) of parse_file: the page,
                    \*   the href as found on it, the URL asked for

spiderVars == <<ppc, csvInput, rowsRead, start_urls, allowed_domains,
                domain_to_id, pending, seen, fetchCount, cur, items,
                spiderErrors, tempFiles, docsMet, dirs, artifacts, docFetches>>

vars == <<textVars, seqVars, spiderVars>>

\* what an action of one part leaves alone: the variables of the other parts
notText == <<seqVars, spiderVars>>
notSeq == <<textVars, spiderVars>>
notSpider == <<textVars, seqVars>>

(***************************************************************************)
(* Bounds of the model.                                                    *)
(***************************************************************************)
\* longest response body handed to get_text
MaxLen == 5
\* most data rows of the input CSV of WebScraper.py
MaxRows == 2
\* most <a href> elements on a school's main page
MaxAnchors == 2
\* most data rows of the spider's csv_input
MaxSeedRows == 2
\* most links the link extractor finds on one page
MaxLinks == 1
\* most document links (.pdf, .doc, .docx) the pages of one crawl hold
MaxDocs == 2

(***************************************************************************)
(* String helpers (Python's str methods on sequences of characters).       *)
(***************************************************************************)
\* the characters str.strip() removes, among those of the model
Whitespace == {" ", "\n"}

RECURSIVE LStrip(_)
LStrip(s) ==
    IF s # <<>> /\ Head(s) \in Whitespace THEN LStrip(Tail(s)) ELSE s

RECURSIVE RStrip(_)
RStrip(s) ==
    IF s # <<>> /\ s[Len(s)] \in Whitespace
    THEN RStrip(SubSeq(s, 1, Len(s) - 1))
    ELSE s

\* str.strip()
Strip(s) == RStrip(LStrip(s))

\* s with its leading run of characters of cls removed
RECURSIVE DropRun(_, _)
DropRun(s, cls) ==
    IF s # <<>> /\ Head(s) \in cls THEN DropRun(Tail(s), cls) ELSE s

\* regex.sub("[cls]+", rep, s): every maximal run of characters of cls
\* becomes the one character rep
RECURSIVE SubRuns(_, _, _)
SubRuns(s, cls, rep) ==
    IF s = <<>> THEN <<>>
    ELSE IF Head(s) \in cls
         THEN <<rep>> \o SubRuns(DropRun(Tail(s), cls), cls, rep)
         ELSE <<Head(s)>> \o SubRuns(Tail(s), cls, rep)

(***************************************************************************)
(* get_text, scrapy_vanilla.py lines 226-259.                              *)
(***************************************************************************)
\* the characters of a response body in the model: ASCII, free of markup
TextChars == {"a", " ", "|", "\n", "{", "}"}

\* The index at which the balanced-brace group that starts at s[1] = "{"
\* ends, or 0 when no such group starts there: the one match the recursive
\* pattern {(?:[^{}]*|(?R))*} can make at that position.
RECURSIVE CloseAt(_, _, _)
CloseAt(s, i, depth) ==
    IF i > Len(s) THEN 0
    ELSE IF s[i] = "{" THEN CloseAt(s, i + 1, depth + 1)
    ELSE IF s[i] = "}"
         THEN IF depth = 1 THEN i ELSE CloseAt(s, i + 1, depth - 1)
    ELSE CloseAt(s, i + 1, depth)

\* line 256: regex.sub(r"{(?:[^{}]*|(?R))*}", " ", filtered_text), leftmost
\* matches first, scanning on after each match
RECURSIVE SubJson(_)
SubJson(s) ==
    IF s = <<>> THEN <<>>
    ELSE IF Head(s) = "{" /\ CloseAt(s, 2, 1) > 0
         THEN <<" ">> \o SubJson(SubSeq(s, CloseAt(s, 2, 1) + 1, Len(s)))
         ELSE <<Head(s)>> \o SubJson(Tail(s))

\* lines 237-248 on a body of TextChars: html5lib puts the text in one text
\* node, get_text(strip=True) strips it; no inline tag literal and no
\* non-ASCII character occurs in it
VisibleText(b) == Strip(b)

\* line 251: runs of spaces, tabs and "|" become one space
CollapseSpaces(s) == SubRuns(s, {" ", "|"}, " ")

\* line 253: runs of line breaks become one newline
CollapseLinebreaks(s) == SubRuns(s, {"\n"}, "\n")

\* lines 251-259 in the order of the code
get_text(b) == Strip(SubJson(CollapseLinebreaks(CollapseSpaces(VisibleText(b)))))

\* sequences over S of length at most n
SeqsUpTo(S, n) == UNION {[1..k -> S] : k \in 0..n}

(***************************************************************************)
(* More of Python's str, for URLs.                                         *)
(***************************************************************************)
\* s.startswith(p)
StartsWith(s, p) == Len(s) >= Len(p) /\ SubSeq(s, 1, Len(p)) = p

\* the first index of character c in s, 0 when there is none
RECURSIVE IndexOf(_, _, _)
IndexOf(s, c, i) ==
    IF i > Len(s) THEN 0 ELSE IF s[i] = c THEN i ELSE IndexOf(s, c, i + 1)

\* s.split(c): the list of the pieces between the occurrences of c
RECURSIVE Split(_, _)
Split(s, c) ==
    LET i == IndexOf(s, c, 1) IN
    IF i = 0 THEN <<s>>
    ELSE <<SubSeq(s, 1, i - 1)>> \o Split(SubSeq(s, i + 1, Len(s)), c)

(***************************************************************************)
(* The strings of the sequential crawler's world.                          *)
(***************************************************************************)
HTTP == <<"h", "t", "t", "p">>
HTTP_WWW == HTTP \o <<":", "/", "/", "w", "w", "w", ".">>
JAVASCRIPT == <<"j", "a", "v", "a", "s", "c", "r", "i", "p", "t">>

\* "http://www.s.org/" and "http://www.t.org/": the main URLs of two schools
URL_S == HTTP_WWW \o <<"s", ".", "o", "r", "g", "/">>
URL_T == HTTP_WWW \o <<"t", ".", "o", "r", "g", "/">>
\* "0": how the input CSV codes a school without a URL
URL_ZERO == <<"0">>

\* "http://www.s.org/a": a page of school s
HREF_S_A == URL_S \o <<"a">>
\* "http://www.t.org/a": a page of school t
HREF_T_A == URL_T \o <<"a">>
\* "http://www.s.com/a": another registrable domain with the label "s"
HREF_SCOM_A == HTTP_WWW \o <<"s", ".", "c", "o", "m", "/", "a">>
\* "javascript:;": a script link
HREF_JS == JAVASCRIPT \o <<":", ";">>
\* "http://l/a": an http URL without a dot
HREF_NODOT == HTTP \o <<":", "/", "/", "l", "/", "a">>

\* what elem.get_attribute("href") may return for an anchor of a main page
Hrefs == {HREF_S_A, HREF_T_A, HREF_SCOM_A, HREF_JS, HREF_NODOT}

\* the rows of the input CSV after the header: fewer than five fields, or
\* id, name, address, one more field, URL
F_ID == <<"7">>
F_NAME == <<"n">>
F_ADDR == <<"d">>
F_OTHER == <<"x">>
HeaderRow == <<F_ID, F_NAME, F_ADDR, F_OTHER, <<"u">> >>
ShortRow == <<F_ID, F_NAME>>
FullRow(u) == <<F_ID, F_NAME, F_ADDR, F_OTHER, u>>
DataRows == {ShortRow} \cup {FullRow(u) : u \in {URL_S, URL_T, URL_ZERO}}

(***************************************************************************)
(* get_domain, scrapy_vanilla.py lines 211-223: tldextract.extract(url)    *)
(* takes the host of the URL, finds its public suffix and the label before *)
(* it; the result is "<domain>.<suffix>".                                  *)
(***************************************************************************)
\* the public suffixes of the hosts of the model
PublicSuffixes == {<<"o", "r", "g">>, <<"c", "o", "m">>}

\* the host of scheme://host/path
Host(url) ==
    LET afterScheme == SubSeq(url, IndexOf(url, "/", 1) + 2, Len(url))
        slash == IndexOf(afterScheme, "/", 1)
    IN IF slash = 0 THEN afterScheme ELSE SubSeq(afterScheme, 1, slash - 1)

get_domain(url) ==
    LET labels == Split(Host(url), ".")
        n == Len(labels)
    IN IF labels[n] \in PublicSuffixes
       THEN (IF n >= 2 THEN labels[n - 1] ELSE <<>>) \o <<".">> \o labels[n]
       ELSE labels[n] \o <<".">>

(***************************************************************************)
(* School.__init__, WebScraper.py lines 62-77.  The result is a School, or *)
(* the exception raised.  id and address are stored and never read.        *)
(***************************************************************************)
NewSchool(name, mainURL) ==
    IF mainURL = URL_ZERO THEN [exc |-> "ValueError"]
    ELSE IF Len(Split(mainURL, ".")) < 2 THEN [exc |-> "IndexError"]
    ELSE [exc |-> "none",
          name |-> name,
          mainURL |-> mainURL,
          matcher |-> Split(mainURL, ".")[2],
          totalNumberofLinks |-> 0,
          htmlLinks |-> 0,
          htmlLinksClicked |-> 0,
          scriptLinks |-> 0,
          scriptLinksClicked |-> 0,
          linksClicked |-> 0]

(***************************************************************************)
(* Link.gatherName, lines 223-238, with the delimiter "-" of line 169.     *)
(***************************************************************************)
RECURSIVE JoinEach(_, _)
JoinEach(parts, delimiter) ==
    IF parts = <<>> THEN <<>>
    ELSE Head(parts) \o delimiter \o JoinEach(Tail(parts), delimiter)

gatherName(type, hrefAttribute, fallbackURL) ==
    IF type = "html"
    THEN LET unfilteredName ==
                 Split(SubSeq(hrefAttribute, Len(fallbackURL) + 1,
                              Len(hrefAttribute)), "/")
         IN IF Len(unfilteredName) # 1
            THEN JoinEach(unfilteredName, <<"-">>)
            ELSE unfilteredName[1]
    ELSE <<>>

(***************************************************************************)
(* Link.__init__, lines 152-169: a Link, or the exception raised.  text is *)
(* "unset" until gatherText assigns it.                                    *)
(***************************************************************************)
NewLink(hrefAttribute, callingURL, matcher, index) ==
    IF StartsWith(hrefAttribute, HTTP) /\ Len(Split(hrefAttribute, ".")) < 2
    THEN [exc |-> "IndexError"]
    ELSE IF /\ StartsWith(hrefAttribute, HTTP)
            /\ Split(hrefAttribute, ".")[2] = matcher
            /\ Len(hrefAttribute) > Len(callingURL)
    THEN [exc |-> "none", type |-> "html", hrefAttribute |-> hrefAttribute,
          fallbackURL |-> callingURL, index |-> 0,
          name |-> gatherName("html", hrefAttribute, callingURL),
          text |-> "unset"]
    ELSE IF StartsWith(hrefAttribute, JAVASCRIPT)
    THEN [exc |-> "none", type |-> "JavaScript",
          hrefAttribute |-> hrefAttribute, fallbackURL |-> callingURL,
          index |-> index,
          name |-> gatherName("JavaScript", hrefAttribute, callingURL),
          text |-> "unset"]
    ELSE [exc |-> "LinkException"]

(***************************************************************************)
(* The sequential crawler, WebScraper.py.  An exception no handler catches *)
(* ends the script: spc = "crashed".                                       *)
(***************************************************************************)
ZeroTotals ==
    [totalNumberOfLinks |-> 0, numberofLinksClicked |-> 0, htmlLinks |-> 0,
     htmlLinksClicked |-> 0, scriptLinks |-> 0, scriptLinksClicked |-> 0]

SeqIdle ==
    /\ spc = "idle"
    /\ csvRows = <<>>
    /\ ri = 0
    /\ schools = <<>>
    /\ si = 0
    /\ links = <<>>
    /\ li = 0
    /\ openDrivers = 0
    /\ fetchLog = <<>>
    /\ files = {}
    /\ totals = ZeroTotals

\* the script starts: line 279 is about to call readCSV
SeqInit ==
    /\ spc = "readCSV"
    /\ csvRows \in {<<HeaderRow>> \o rows : rows \in SeqsUpTo(DataRows, MaxRows)}
    /\ ri = 0
    /\ schools = <<>>
    /\ si = 0
    /\ links = <<>>
    /\ li = 0
    /\ openDrivers = 0
    /\ fetchLog = <<>>
    /\ files = {}
    /\ totals = ZeroTotals

\* where the script goes once readCSV has returned `list`: the main loop of
\* line 293, or past it when there is no school
AfterReadCSV(list) == IF list = <<>> THEN "final" ELSE "gather"

\* readCSV, lines 31-42: one turn of its loop over the rows
ReadRow ==
    /\ spc = "readCSV"
    /\ ri < Len(csvRows)
    /\ LET row == csvRows[ri + 1]
           last == ri + 1 = Len(csvRows)
       IN /\ ri' = ri + 1
          /\ IF ri + 1 = 1
             THEN \* reader.line_num = 1: the header
                  /\ schools' = schools
                  /\ spc' = IF last THEN AfterReadCSV(schools) ELSE spc
             ELSE IF Len(row) < 5
             THEN \* row[4]: IndexError, which line 40 does not catch
                  /\ schools' = schools
                  /\ spc' = "crashed"
             ELSE LET school == NewSchool(row[2], row[5]) IN
                  CASE school.exc = "none" ->
                         /\ schools' = Append(schools, school)
                         /\ spc' = IF last THEN AfterReadCSV(schools') ELSE spc
                    [] school.exc = "ValueError" ->
                         /\ schools' = schools
                         /\ spc' = IF last THEN AfterReadCSV(schools) ELSE spc
                    [] OTHER ->
                         /\ schools' = schools
                         /\ spc' = "crashed"
          /\ si' = IF spc' = "gather" THEN 1 ELSE si
    /\ UNCHANGED <<csvRows, links, li, openDrivers, fetchLog, files, totals>>
    /\ UNCHANGED notSeq

\* the loop of gatherLinks, lines 83-89, over the anchors from the k-th on
\* (elems.index counts from 0): the links gathered and the exception that
\* ended the loop, if any
RECURSIVE GatherLoop(_, _, _, _)
GatherLoop(elems, k, school, acc) ==
    IF k > Len(elems) THEN [links |-> acc, exc |-> "none"]
    ELSE LET link == NewLink(elems[k], school.mainURL, school.matcher, k - 1) IN
         CASE link.exc = "none" ->
                GatherLoop(elems, k + 1, school, Append(acc, link))
           [] link.exc = "LinkException" ->
                GatherLoop(elems, k + 1, school, acc)
           [] OTHER -> [links |-> acc, exc |-> link.exc]

\* School.gatherLinks, lines 79-93, called at line 294.  loads: whether
\* driver.get loads the main page; elems: the anchors found on it.
GatherLinks ==
    /\ spc = "gather"
    /\ \E loads \in BOOLEAN, elems \in SeqsUpTo(Hrefs, MaxAnchors) :
         LET school == schools[si]
             got == GatherLoop(elems, 1, school, <<>>)
         IN IF ~loads
            THEN \* driver.get raises WebDriverException
                 /\ elems = <<>>
                 /\ openDrivers' = openDrivers + 1
                 /\ fetchLog' = <<>>
                 /\ links' = <<>>
                 /\ spc' = "crashed"
                 /\ UNCHANGED schools
            ELSE IF got.exc # "none"
            THEN \* Link.__init__ raises IndexError
                 /\ openDrivers' = openDrivers + 1
                 /\ fetchLog' = <<school.mainURL>>
                 /\ links' = got.links
                 /\ spc' = "crashed"
                 /\ UNCHANGED schools
            ELSE /\ openDrivers' = openDrivers
                 /\ fetchLog' = <<school.mainURL>>
                 /\ links' = got.links
                 /\ schools' = [schools EXCEPT
                        ![si].totalNumberofLinks = Len(got.links)]
                 /\ spc' = IF got.links = <<>> THEN "write" ELSE "click"
    /\ li' = 0
    /\ files' = {}
    /\ UNCHANGED <<csvRows, ri, si, totals>>
    /\ UNCHANGED notSeq

\* how Link.click can end, lines 193-221
ClickOutcomes(type) ==
    IF type = "html"
    THEN {"loaded", "getRaises"}
    ELSE {"clicked", "clickedAtRetry", "unclickable", "getRaises", "moveRaises"}

\* the texts gatherText can assign: none visible, or some
PageTexts == {"", "text"}

\* CountLink without the elif branch of lines 101-102: a JavaScript link
\* is not counted
CountLinkHtmlOnly(school, html) ==
    [school EXCEPT !.htmlLinks = @ + (IF html THEN 1 ELSE 0)]

\* lines 99-102: the link is counted by its type before it is clicked (a
\* Link is of type "html" or "JavaScript")
CountLink(school, html) ==
    [school EXCEPT !.htmlLinks = @ + (IF html THEN 1 ELSE 0),
                   !.scriptLinks = @ + (IF html THEN 0 ELSE 1)]

\* lines 105-109: link.click() has returned
CountClicked(school, html) ==
    [school EXCEPT !.linksClicked = @ + 1,
                   !.htmlLinksClicked = @ + (IF html THEN 1 ELSE 0),
                   !.scriptLinksClicked = @ + (IF html THEN 0 ELSE 1)]

\* one turn of the first loop of clickLinks, lines 97-111, Link.click
\* included.  how: the way the click ends; text: what gatherText finds.
ClickLink ==
    /\ spc = "click"
    /\ li < Len(links)
    /\ LET link == links[li + 1]
           html == link.type = "html"
           counted == [schools EXCEPT ![si] = CountLink(@, html)]
           clicked == [counted EXCEPT ![si] = CountClicked(@, html)]
           target == IF html THEN link.hrefAttribute ELSE link.fallbackURL
       IN \E how \in ClickOutcomes(link.type), text \in PageTexts :
            /\ li' = li + 1
            /\ CASE how = "getRaises" ->
                      \* driver.get raises WebDriverException: not caught
                      /\ text = ""
                      /\ openDrivers' = openDrivers + 1
                      /\ fetchLog' = fetchLog
                      /\ links' = links
                      /\ schools' = counted
                      /\ spc' = "crashed"
                 [] how = "moveRaises" ->
                      \* lines 209-211 raise outside the inner try
                      /\ text = ""
                      /\ openDrivers' = openDrivers + 1
                      /\ fetchLog' = Append(fetchLog, target)
                      /\ links' = links
                      /\ schools' = counted
                      /\ spc' = "crashed"
                 [] how = "unclickable" ->
                      \* line 218 closes, line 219 raises LinkException(1)
                      /\ text = ""
                      /\ openDrivers' = openDrivers
                      /\ fetchLog' = Append(fetchLog, target)
                      /\ links' = links
                      /\ schools' = counted
                      /\ spc' = IF li + 1 = Len(links) THEN "write" ELSE spc
                 [] how = "clicked" ->
                      \* lines 205-206: no driver.close() on this path
                      /\ openDrivers' = openDrivers + 1
                      /\ fetchLog' = Append(fetchLog, target)
                      /\ links' = [links EXCEPT ![li + 1].text = text]
                      /\ schools' = clicked
                      /\ spc' = IF li + 1 = Len(links) THEN "write" ELSE spc
                 [] OTHER ->
                      \* "loaded" (lines 196-199), "clickedAtRetry" (213-215)
                      /\ openDrivers' = openDrivers
                      /\ fetchLog' = Append(fetchLog, target)
                      /\ links' = [links EXCEPT ![li + 1].text = text]
                      /\ schools' = clicked
                      /\ spc' = IF li + 1 = Len(links) THEN "write" ELSE spc
    /\ UNCHANGED <<csvRows, ri, si, files, totals>>
    /\ UNCHANGED notSeq

\* the second loop of clickLinks, lines 112-118, from the k-th link on:
\* the files written and the exception that ended the loop, if any
RECURSIVE WriteLoop(_, _, _, _)
WriteLoop(ls, k, scriptCount, acc) ==
    IF k > Len(ls) THEN [files |-> acc, exc |-> "none"]
    ELSE IF ls[k].type = "html"
    THEN WriteLoop(ls, k + 1, scriptCount,
                   acc \cup {[kind |-> "html", name |-> ls[k].name, n |-> 0]})
    ELSE IF ls[k].text = "unset"
    THEN \* link.text was never assigned: AttributeError
         [files |-> acc, exc |-> "AttributeError"]
    ELSE IF ls[k].text # ""
    THEN WriteLoop(ls, k + 1, scriptCount + 1,
                   acc \cup {[kind |-> "JavaScript", name |-> <<>>,
                              n |-> scriptCount]})
    ELSE WriteLoop(ls, k + 1, scriptCount, acc)

\* the rest of clickLinks once the first loop is over
WriteFiles ==
    /\ spc = "write"
    /\ LET wrote == WriteLoop(links, 1, 0, {}) IN
         /\ files' = wrote.files
         /\ spc' = IF wrote.exc = "none" THEN "diag" ELSE "crashed"
    /\ UNCHANGED <<csvRows, ri, schools, si, links, li, openDrivers, fetchLog,
                   totals>>
    /\ UNCHANGED notSeq

\* lines 297-317 of the main loop for the school just clicked, then the
\* next turn of the loop
Diagnostics ==
    /\ spc = "diag"
    /\ LET school == schools[si] IN
         /\ totals' =
              [totalNumberOfLinks |->
                   totals.totalNumberOfLinks + school.totalNumberofLinks,
               numberofLinksClicked |->
                   totals.numberofLinksClicked + school.linksClicked,
               htmlLinks |-> totals.htmlLinks + school.htmlLinks,
               htmlLinksClicked |->
                   totals.htmlLinksClicked + school.htmlLinksClicked,
               \* lines 302-303 both add to scriptLinks
               scriptLinks |-> totals.scriptLinks + school.scriptLinks
                                   + school.scriptLinksClicked,
               scriptLinksClicked |-> totals.scriptLinksClicked]
         /\ IF \/ school.totalNumberofLinks = 0        \* line 306
               \/ school.htmlLinksClicked = 0          \* line 309
               \/ (school.scriptLinks # 0 /\ school.scriptLinksClicked = 0)
            THEN \* ZeroDivisionError
                 /\ spc' = "crashed"
                 /\ UNCHANGED <<si, links, li, fetchLog, files>>
            ELSE /\ spc' = IF si < Len(schools) THEN "gather" ELSE "final"
                 /\ si' = si + 1
                 /\ links' = <<>>
                 /\ li' = 0
                 /\ fetchLog' = <<>>
                 /\ files' = {}
    /\ UNCHANGED <<csvRows, ri, schools, openDrivers>>
    /\ UNCHANGED notSeq

\* lines 318-328, after the main loop
FinalDiagnostics ==
    /\ spc = "final"
    /\ spc' = IF \/ totals.totalNumberOfLinks = 0      \* line 322
                 \/ totals.htmlLinksClicked = 0        \* line 324
                 \/ totals.scriptLinksClicked = 0      \* line 326
              THEN "crashed"
              ELSE "done"
    /\ UNCHANGED <<csvRows, ri, schools, si, links, li, openDrivers, fetchLog,
                   files, totals>>
    /\ UNCHANGED notSeq

SeqNext ==
    \/ ReadRow
    \/ GatherLinks
    \/ ClickLink
    \/ WriteFiles
    \/ Diagnostics
    \/ FinalDiagnostics

(***************************************************************************)
(* More of Python's str and os.path, for parse_items and parse_file.       *)
(***************************************************************************)
\* s.endswith(p)
EndsWith(s, p) ==
    Len(s) >= Len(p) /\ SubSeq(s, Len(s) - Len(p) + 1, Len(s)) = p

\* sub in s
Contains(s, sub) ==
    \E i \in 1..(Len(s) - Len(sub) + 1) : SubSeq(s, i, i + Len(sub) - 1) = sub

\* s.replace(old, new): every occurrence, left to right; an empty old
\* matches before every character and at the end
RECURSIVE Replace(_, _, _)
Replace(s, old, new) ==
    IF old = <<>>
    THEN IF s = <<>> THEN new
         ELSE new \o <<Head(s)>> \o Replace(Tail(s), old, new)
    ELSE IF s = <<>> THEN <<>>
    ELSE IF StartsWith(s, old)
         THEN new \o Replace(SubSeq(s, Len(old) + 1, Len(s)), old, new)
         ELSE <<Head(s)>> \o Replace(Tail(s), old, new)

Lowers == <<"a", "b", "c", "d", "e", "f", "g", "h", "i", "j", "k", "l", "m",
            "n", "o", "p", "q", "r", "s", "t", "u", "v", "w", "x", "y", "z">>
Uppers == <<"A", "B", "C", "D", "E", "F", "G", "H", "I", "J", "K", "L", "M",
            "N", "O", "P", "Q", "R", "S", "T", "U", "V", "W", "X", "Y", "Z">>

\* s.upper() and s.lower()
Upper(s) ==
    [i \in 1..Len(s) |->
        IF \E j \in 1..26 : Lowers[j] = s[i]
        THEN Uppers[CHOOSE j \in 1..26 : Lowers[j] = s[i]]
        ELSE s[i]]
Lower(s) ==
    [i \in 1..Len(s) |->
        IF \E j \in 1..26 : Uppers[j] = s[i]
        THEN Lowers[CHOOSE j \in 1..26 : Uppers[j] = s[i]]
        ELSE s[i]]

\* urlparse(url).path of scheme://host/path: from the first "/" after the
\* host on, empty when there is none
UrlPath(url) ==
    LET afterScheme == SubSeq(url, IndexOf(url, "/", 1) + 2, Len(url))
        slash == IndexOf(afterScheme, "/", 1)
    IN IF slash = 0 THEN <<>> ELSE SubSeq(afterScheme, slash, Len(afterScheme))

\* os.path.basename(p): what follows the last "/"
RECURSIVE Basename(_)
Basename(p) ==
    LET slash == IndexOf(p, "/", 1) IN
    IF slash = 0 THEN p ELSE Basename(SubSeq(p, slash + 1, Len(p)))

(***************************************************************************)
(* The strings of the spider's world.                                      *)
(***************************************************************************)
\* "http://"
HTTP_SCHEME == HTTP \o <<":", "/", "/">>
\* the seeds "http://www.a.org/" and "http://www.b.org/"
SEED_A == HTTP_WWW \o <<"a", ".", "o", "r", "g", "/">>
SEED_B == HTTP_WWW \o <<"b", ".", "o", "r", "g", "/">>
\* "http://www.a.org/p": a page of a.org below the seed
PAGE_A2 == SEED_A \o <<"p">>
\* "http://www.x.com/": a page of a domain that is no seed's
PAGE_X == HTTP_WWW \o <<"x", ".", "c", "o", "m", "/">>
\* the pages of the web of the model
PageURLs == {SEED_A, PAGE_A2, SEED_B, PAGE_X}

\* the hrefs of document links: "/f.pdf", "g.docx" and
\* "http://www.a.org/h.doc"
DOC_ROOTED == <<"/", "f", ".", "p", "d", "f">>
DOC_RELATIVE == <<"g", ".", "d", "o", "c", "x">>
DOC_ABSOLUTE == SEED_A \o <<"h", ".", "d", "o", "c">>
DocHrefs == {DOC_ROOTED, DOC_RELATIVE, DOC_ABSOLUTE}

\* line 80
TEXTRACT_EXTENSIONS ==
    << <<".", "p", "d", "f">>, <<".", "d", "o", "c">>,
       <<".", "d", "o", "c", "x">>, <<>> >>

\* the lines of csv_input after the header: "7,http://www.a.org/",
\* "8,http://www.b.org/", "7" (no URL), ",http://www.a.org/" (no id), and
\* an empty line, for which csv.reader yields an empty row
SeedLine(id, url) == id \o <<",">> \o url
SeedHeader == << <<"n", ",", "u">> >>
SeedRows ==
    { << SeedLine(<<"7">>, SEED_A) >>,
      << SeedLine(<<"8">>, SEED_B) >>,
      << <<"7">> >>,
      << SeedLine(<<>>, SEED_A) >>,
      <<>> }

Digits == {"0", "1", "2", "3", "4", "5", "6", "7", "8", "9"}

\* whether float(s) returns: of the ids of the model, the strings of digits
IsFloat(s) == s # <<>> /\ \A i \in 1..Len(s) : s[i] \in Digits

(***************************************************************************)
(* The spider, scrapy_vanilla.py.                                          *)
(***************************************************************************)
\* hrefs is no field of CharterItem: it keeps the hrefs the selector of line
\* 156 gave and the loop of line 160 has gone through, in page order
NoResponse ==
    [active |-> FALSE, url |-> <<>>, depth |-> 0, school_id |-> <<>>,
     hrefs |-> <<>>, file_urls |-> <<>>, file_text |-> <<>>]

SpiderIdle ==
    /\ ppc = "idle"
    /\ csvInput = <<>>
    /\ rowsRead = 0
    /\ start_urls = <<>>
    /\ allowed_domains = <<>>
    /\ domain_to_id = {}
    /\ pending = {}
    /\ seen = {}
    /\ fetchCount = [u \in PageURLs |-> 0]
    /\ cur = NoResponse
    /\ items = <<>>
    /\ spiderErrors = {}
    /\ tempFiles = 0
    /\ docsMet = 0
    /\ dirs = {}
    /\ artifacts = {}
    /\ docFetches = {}

\* __init__, lines 128-132: the constructor is about to call init_from_csv
SpiderInit ==
    /\ ppc = "init"
    /\ csvInput \in {SeedHeader \o rows : rows \in SeqsUpTo(SeedRows, MaxSeedRows)}
    /\ rowsRead = 0
    /\ start_urls = <<>>
    /\ allowed_domains = <<>>
    /\ domain_to_id = {}
    /\ pending = {}
    /\ seen = {}
    /\ fetchCount = [u \in PageURLs |-> 0]
    /\ cur = NoResponse
    /\ items = <<>>
    /\ spiderErrors = {}
    /\ tempFiles = 0
    /\ docsMet = 0
    /\ dirs = {}
    /\ artifacts = {}
    /\ docFetches = {}

\* d[key] = value on a dict held as a set of pairs
DictSet(d, key, value) == {e \in d : e[1] # key} \cup {<<key, value>>}
DictHas(d, key) == \E e \in d : e[1] = key
DictGet(d, key) == (CHOOSE e \in d : e[1] = key)[2]

\* init_from_csv, lines 194-208: one turn of its loop over the rows
InitRow ==
    /\ ppc = "init"
    /\ rowsRead < Len(csvInput)
    /\ rowsRead' = rowsRead + 1
    /\ LET raw_row == csvInput[rowsRead + 1]
           last == rowsRead + 1 = Len(csvInput)
       IN IF rowsRead = 0
          THEN \* first_row: the header
               /\ ppc' = IF last THEN "ready" ELSE ppc
               /\ UNCHANGED <<start_urls, allowed_domains, domain_to_id>>
          ELSE IF raw_row = <<>>
          THEN \* raw_row[0]: IndexError
               /\ ppc' = "crashed"
               /\ UNCHANGED <<start_urls, allowed_domains, domain_to_id>>
          ELSE IF Len(Split(raw_row[1], ",")) # 2
          THEN \* school_id, url = csv_row.split(","): ValueError
               /\ ppc' = "crashed"
               /\ UNCHANGED <<start_urls, allowed_domains, domain_to_id>>
          ELSE LET school_id == Split(raw_row[1], ",")[1]
                   url == Split(raw_row[1], ",")[2]
                   domain == get_domain(url)
               IN /\ start_urls' = Append(start_urls, url)
                  /\ allowed_domains' = Append(allowed_domains, domain)
                  /\ IF IsFloat(school_id)
                     THEN /\ domain_to_id' =
                                DictSet(domain_to_id, domain, school_id)
                          /\ ppc' = IF last THEN "ready" ELSE ppc
                     ELSE \* float(school_id): ValueError
                          /\ domain_to_id' = domain_to_id
                          /\ ppc' = "crashed"
    /\ UNCHANGED <<csvInput, pending, seen, fetchCount, cur, items,
                   spiderErrors, tempFiles, docsMet, dirs, artifacts, docFetches>>
    /\ UNCHANGED notSpider

\* The crawl starts: one request per entry of start_urls, at depth 0.
\* Scrapy makes them with dont_filter=True, so the scheduler neither checks
\* nor records them in its duplicate filter.  start is the entry's index; a
\* request made from an extracted link has start = 0.
StartRequests ==
    /\ ppc = "ready"
    /\ ppc' = "crawl"
    /\ pending' = {[url |-> start_urls[n], depth |-> 0, start |-> n] :
                       n \in 1..Len(start_urls)}
    /\ UNCHANGED <<csvInput, rowsRead, start_urls, allowed_domains,
                   domain_to_id, seen, fetchCount, cur, items, spiderErrors,
                   tempFiles, docsMet, dirs, artifacts, docFetches>>
    /\ UNCHANGED notSpider

\* whether the offsite filter lets a URL through: its host is one of
\* allowed_domains or a subdomain of one
HostAllowed(url) ==
    \E n \in 1..Len(allowed_domains) :
        \/ Host(url) = allowed_domains[n]
        \/ EndsWith(Host(url), <<".">> \o allowed_domains[n])

\* The rule of lines 97-106 (follow=True) on a response at `depth`: the
\* links extracted from it that pass the offsite filter and that the
\* scheduler's duplicate filter has not seen
Followed(hrefs) == {u \in hrefs : HostAllowed(u) /\ u \notin seen}

FollowRequests(hrefs, depth) ==
    {[url |-> u, depth |-> depth + 1, start |-> 0] : u \in Followed(hrefs)}

\* what a page can hold: the links the extractor finds on it (a set:
\* unique=True), and document hrefs for the selector of line 156, each
\* drawn when the loop of line 160 reaches it
PageLinks == {h \in SUBSET PageURLs : Cardinality(h) <= MaxLinks}

\* the download of a request fails: no response reaches the spider
DownloadFails ==
    /\ ppc = "crawl"
    /\ ~cur.active
    /\ \E req \in pending : pending' = pending \ {req}
    /\ UNCHANGED <<ppc, csvInput, rowsRead, start_urls, allowed_domains,
                   domain_to_id, seen, fetchCount, cur, items, spiderErrors,
                   tempFiles, docsMet, dirs, artifacts, docFetches>>
    /\ UNCHANGED notSpider

\* The response to a start request.  CrawlSpider hands it to
\* parse_start_url, which the spider does not override and which returns
\* no item, and then follows the links of the page.
DownloadStart ==
    /\ ppc = "crawl"
    /\ ~cur.active
    /\ \E req \in pending, hrefs \in PageLinks :
         /\ req.start # 0
         /\ fetchCount' = [fetchCount EXCEPT ![req.url] = @ + 1]
         /\ seen' = seen \cup Followed(hrefs)
         /\ pending' = (pending \ {req}) \cup FollowRequests(hrefs, req.depth)
    /\ UNCHANGED <<ppc, csvInput, rowsRead, start_urls, allowed_domains,
                   domain_to_id, cur, items, spiderErrors, tempFiles, docsMet, dirs,
                   artifacts, docFetches>>
    /\ UNCHANGED notSpider

\* The response to a request made from an extracted link: the callback
\* parse_items starts, lines 140-159.
DownloadPage ==
    /\ ppc = "crawl"
    /\ ~cur.active
    /\ \E req \in pending :
         /\ req.start = 0
         /\ fetchCount' = [fetchCount EXCEPT ![req.url] = @ + 1]
         /\ pending' = pending \ {req}
         /\ IF DictHas(domain_to_id, get_domain(req.url))
            THEN /\ cur' = [active |-> TRUE, url |-> req.url,
                            depth |-> req.depth,
                            school_id |->
                                DictGet(domain_to_id, get_domain(req.url)),
                            hrefs |-> <<>>, file_urls |-> <<>>,
                            file_text |-> <<>>]
                 /\ spiderErrors' = spiderErrors
            ELSE \* line 144: KeyError
                 /\ cur' = NoResponse
                 /\ spiderErrors' = spiderErrors \cup
                        {[url |-> req.url, href |-> <<>>, why |-> "KeyError"]}
    /\ UNCHANGED <<ppc, csvInput, rowsRead, start_urls, allowed_domains,
                   domain_to_id, seen, items, tempFiles, docsMet, dirs, artifacts, docFetches>>
    /\ UNCHANGED notSpider

\* the text the extraction backend returns for the document at a URL
TextOf(url) == <<"t", "e", "x", "t", ":">> \o url

\* line 283: the first of TEXTRACT_EXTENSIONS the fetched URL ends with
\* (the last one, "", always matches)
ExtensionOf(url) ==
    TEXTRACT_EXTENSIONS[
        CHOOSE n \in 1..Len(TEXTRACT_EXTENSIONS) :
            /\ EndsWith(Lower(url), TEXTRACT_EXTENSIONS[n])
            /\ \A m \in 1..(n - 1) : ~EndsWith(Lower(url), TEXTRACT_EXTENSIONS[m])]

\* line 297
TxtFileName(href, base_url, extension) ==
    <<"f", "i", "l", "e", "s", "/">> \o base_url \o <<"/">>
        \o Replace(Basename(UrlPath(href)), extension, <<".", "t", "x", "t">>)

\* how a call of parse_file can end: an exception of requests.get (line
\* 281), of textract.process (290), of decode (291), of os.mkdir (301), of
\* open (303), or the return of line 315.  os.mkdir is called only when
\* the directory is missing.
ParseFileOutcomes(dirExists) ==
    {"getRaises", "extractRaises", "decodeRaises", "openRaises", "returns"}
        \cup (IF dirExists THEN {} ELSE {"mkdirRaises"})

\* parse_file, lines 262-315, ending the way `how` says, with the
\* directories dirsNow and the side artifacts artifactsNow on disk: the
\* exception raised ("none": it returns text), the temporary files it
\* leaves on disk, and the directories and artifacts afterwards.  The
\* fetched URL is href (no redirect).
parse_file(href, parent_url, how, dirsNow, artifactsNow) ==
    LET extension == ExtensionOf(href)
        extracted_data == TextOf(href)
        base_url == get_domain(parent_url)
        txt_file_name == TxtFileName(href, base_url, extension)
        written == [path |-> txt_file_name,
                    base |-> base_url,
                    parent |-> parent_url,
                    file |-> Upper(href),
                    text |-> extracted_data]
    IN CASE how = "getRaises" ->
              [exc |-> how, text |-> <<>>, tempLeft |-> 0,
               dirs |-> dirsNow, artifacts |-> artifactsNow]
         [] how \in {"extractRaises", "decodeRaises"} ->
              \* lines 290-291 raise before tempfile.close() of line 293
              [exc |-> how, text |-> <<>>, tempLeft |-> 1,
               dirs |-> dirsNow, artifacts |-> artifactsNow]
         [] how = "mkdirRaises" ->
              [exc |-> how, text |-> <<>>, tempLeft |-> 0,
               dirs |-> dirsNow, artifacts |-> artifactsNow]
         [] how = "openRaises" ->
              [exc |-> how, text |-> <<>>, tempLeft |-> 0,
               dirs |-> dirsNow \cup {base_url}, artifacts |-> artifactsNow]
         [] OTHER ->
              [exc |-> "none", text |-> extracted_data, tempLeft |-> 0,
               dirs |-> dirsNow \cup {base_url},
               artifacts |-> {a \in artifactsNow : a.path # txt_file_name}
                                 \cup {written}]

\* response.urljoin(href) of line 152, for a response at `base`: an href
\* with a scheme stands as it is, an href that starts with "/" replaces the
\* path of base, any other replaces what follows the last "/" of base
urljoin(base, href) ==
    LET origin == HTTP_SCHEME \o Host(base)
        path == UrlPath(base)
        dir == IF path = <<>> THEN <<"/">>
               ELSE SubSeq(path, 1, Len(path) - Len(Basename(path)))
    IN IF StartsWith(href, HTTP_SCHEME) THEN href
       ELSE IF StartsWith(href, <<"/">>) THEN origin \o href
       ELSE origin \o dir \o href

\* lines 162-163: an href without "http" in it is prefixed
CompleteHref(href, domain) ==
    IF ~Contains(href, HTTP) THEN HTTP_SCHEME \o domain \o href ELSE href

\* AddFile with the text put at the head of file_text: the order of the
\* texts is then the reverse of the order of the URLs
AddFileTextFirst(item, raw, href, text) ==
    [item EXCEPT !.hrefs = Append(@, raw),
                 !.file_urls = Append(@, href),
                 !.file_text = <<text>> \o @]

\* lines 165 and 168, when parse_file has returned `text` for the document
\* link `raw`, completed to `href`: both lists of the item grow at the end
AddFile(item, raw, href, text) ==
    [item EXCEPT !.hrefs = Append(@, raw),
                 !.file_urls = Append(@, href),
                 !.file_text = Append(@, text)]

\* one turn of the loop of parse_items over the document links, lines
\* 160-168.  An exception of parse_file leaves parse_items before its
\* yield: Scrapy logs it, no item is made of the page and its links are
\* not followed.
ParseFile ==
    /\ ppc = "crawl"
    /\ cur.active
    /\ docsMet < MaxDocs
    /\ docsMet' = docsMet + 1
    /\ \E raw \in DocHrefs :
         LET domain == get_domain(cur.url)
             href == CompleteHref(raw, domain)
         IN \E how \in ParseFileOutcomes(domain \in dirs) :
            LET r == parse_file(href, cur.url, how, dirs, artifacts) IN
            \* open(txt_file_name, "w") of a name that ends with "/" raises
            /\ how = "returns" => Basename(UrlPath(href)) # <<>>
            /\ docFetches' = docFetches \cup
                   {[page |-> cur.url, raw |-> raw, url |-> href]}
            /\ tempFiles' = tempFiles + r.tempLeft
            /\ dirs' = r.dirs
            /\ artifacts' = r.artifacts
            /\ IF r.exc = "none"
               THEN /\ cur' = AddFile(cur, raw, href, r.text)
                    /\ spiderErrors' = spiderErrors
               ELSE /\ cur' = NoResponse
                    /\ spiderErrors' = spiderErrors \cup
                           {[url |-> cur.url, href |-> href, why |-> r.exc]}
    /\ UNCHANGED <<ppc, csvInput, rowsRead, start_urls, allowed_domains,
                   domain_to_id, pending, seen, fetchCount, items>>
    /\ UNCHANGED notSpider

\* line 170, once the page has no further document link: the item is
\* yielded; then the rule follows the links of the page.  The item's text
\* and image_urls are left out.
YieldItem ==
    /\ ppc = "crawl"
    /\ cur.active
    /\ items' = Append(items,
                       [url |-> cur.url, school_id |-> cur.school_id,
                        depth |-> cur.depth, hrefs |-> cur.hrefs,
                        file_urls |-> cur.file_urls,
                        file_text |-> cur.file_text])
    /\ \E hrefs \in PageLinks :
         /\ seen' = seen \cup Followed(hrefs)
         /\ pending' = pending \cup FollowRequests(hrefs, cur.depth)
    /\ cur' = NoResponse
    /\ UNCHANGED <<ppc, csvInput, rowsRead, start_urls, allowed_domains,
                   domain_to_id, fetchCount, spiderErrors, tempFiles, docsMet, dirs,
                   artifacts, docFetches>>
    /\ UNCHANGED notSpider

\* A NamedTemporaryFile that parse_file left open is deleted when the
\* interpreter finalizes the object, at a time the code does not decide.
FinalizeTempFile ==
    /\ tempFiles > 0
    /\ tempFiles' = tempFiles - 1
    /\ UNCHANGED <<ppc, csvInput, rowsRead, start_urls, allowed_domains,
                   domain_to_id, pending, seen, fetchCount, cur, items,
                   spiderErrors, docsMet, dirs, artifacts, docFetches>>
    /\ UNCHANGED notSpider

SpiderNext ==
    \/ InitRow
    \/ StartRequests
    \/ DownloadFails
    \/ DownloadStart
    \/ DownloadPage
    \/ ParseFile
    \/ YieldItem
    \/ FinalizeTempFile

(***************************************************************************)
(* get_text as a state machine: a body is normalised, and the result is    *)
(* normalised again.                                                       *)
(***************************************************************************)
TextIdle == body = <<>> /\ tpc = "idle" /\ out1 = <<>> /\ out2 = <<>>

TextInit ==
    /\ body \in SeqsUpTo(TextChars, MaxLen)
    /\ tpc = "raw"
    /\ out1 = <<>>
    /\ out2 = <<>>

\* the spider normalises the body of a response
Normalize ==
    /\ tpc = "raw"
    /\ out1' = get_text(body)
    /\ tpc' = "once"
    /\ UNCHANGED <<body, out2>>
    /\ UNCHANGED notText

\* the normalised text is handed to get_text again
Renormalize ==
    /\ tpc = "once"
    /\ out2' = get_text(out1)
    /\ tpc' = "twice"
    /\ UNCHANGED <<body, out1>>
    /\ UNCHANGED notText

TextNext == Normalize \/ Renormalize

(***************************************************************************)
(* The specifications.                                                     *)
(***************************************************************************)
InitText == TextInit /\ SeqIdle /\ SpiderIdle

SpecText == InitText /\ [][TextNext]_vars

InitSeq == SeqInit /\ TextIdle /\ SpiderIdle

SpecSeq == InitSeq /\ [][SeqNext]_vars

Init == SpiderInit /\ TextIdle /\ SeqIdle

Next == SpiderNext

Spec == Init /\ [][Next]_vars

\* whether a sequence holds no element twice
NoDuplicates(seq) ==
    \A i, j \in 1..Len(seq) : seq[i] = seq[j] => i = j

(***************************************************************************)
(* C1: within the crawl of one school no URL is fetched twice: every URL   *)
(* the browser loads for the school is loaded exactly once.                *)
(***************************************************************************)
C1_NoUrlFetchedTwice == NoDuplicates(fetchLog)

(***************************************************************************)
(* C2: every href Link.__init__ accepts as a page link has the registrable *)
(* domain of the school's main URL; a link to another registrable domain   *)
(* is rejected.                                                            *)
(***************************************************************************)
C2_AcceptedLinksInDomain ==
    \A k \in 1..Len(links) :
        links[k].type = "html" =>
            get_domain(links[k].hrefAttribute) = get_domain(links[k].fallbackURL)

(***************************************************************************)
(* C8: a failure in the crawl of one school does not stop the others: when *)
(* the main loop has ended by an exception, every school of the input had  *)
(* its turn.                                                               *)
(***************************************************************************)
C8_NoCascade ==
    (spc = "crashed" /\ si >= 1) => si >= Len(schools)

(***************************************************************************)
(* C9: every browser session prepDriver opened is closed by the time       *)
(* gatherLinks or Link.click returns or raises.                            *)
(***************************************************************************)
C9_DriversReleased == openDrivers = 0

\* the items made of the page at URL u
Records(u) == {n \in 1..Len(items) : items[n].url = u}

\* the page at u is in the callback, or the callback raised on it
InCallback(u) == cur.active /\ cur.url = u
CallbackRaised(u) == \E e \in spiderErrors : e.url = u

\* the URLs of start_urls
Seeds == {start_urls[n] : n \in 1..Len(start_urls)}

(***************************************************************************)
(* C3: every page fetched and parsed gives exactly one item, the seed page *)
(* included, and the item of a seed page has depth 0: for each URL there   *)
(* are as many items as responses, once the callback is over and unless it *)
(* raised.                                                                 *)
(***************************************************************************)
C3_OneRecordPerPage ==
    \A u \in PageURLs :
        (~InCallback(u) /\ ~CallbackRaised(u)) =>
            /\ Cardinality(Records(u)) = fetchCount[u]
            /\ \A n \in Records(u) : u \in Seeds => items[n].depth = 0

(***************************************************************************)
(* C4: normalisation is idempotent: get_text applied to its own output     *)
(* returns that output unchanged.                                          *)
(***************************************************************************)
C4_Idempotent == tpc = "twice" => out2 = out1

(***************************************************************************)
(* C5: once parse_file has returned or raised, the temporary file it made  *)
(* is gone: between the calls no temporary file exists.                    *)
(***************************************************************************)
C5_TempFileDeleted == tempFiles = 0

(***************************************************************************)
(* C6: a document whose fetch or extraction fails does not cost the page   *)
(* its item: for every such failure there is an item of the page.          *)
(***************************************************************************)
C6_DocumentFailureContained ==
    \A e \in spiderErrors :
        e.why \in {"getRaises", "extractRaises", "decodeRaises"} =>
            Records(e.url) # {}

(***************************************************************************)
(* C7: when the side artifact cannot be written (os.mkdir or open fails),  *)
(* parse_file still returns the extracted text and the text is in the      *)
(* item of the page.                                                       *)
(***************************************************************************)
C7_TextReturnedDespiteArtifactFailure ==
    \A e \in spiderErrors :
        e.why \in {"mkdirRaises", "openRaises"} =>
            \E n \in Records(e.url) :
                \E m \in 1..Len(items[n].file_text) :
                    items[n].file_text[m] = TextOf(e.href)

\* a row of csv_input with both fields: an id float() accepts and a URL
WellFormedRow(raw_row) ==
    /\ raw_row # <<>>
    /\ Len(Split(raw_row[1], ",")) = 2
    /\ IsFloat(Split(raw_row[1], ",")[1])
    /\ Split(raw_row[1], ",")[2] # <<>>

(***************************************************************************)
(* C10: a row that lacks a field is skipped and the rows after it are      *)
(* loaded: once init_from_csv is over, the URL of every well-formed row is *)
(* in start_urls.                                                          *)
(***************************************************************************)
C10_MalformedRowSkipped ==
    ppc # "init" =>
        \A n \in 2..Len(csvInput) :
            WellFormedRow(csvInput[n]) =>
                Split(csvInput[n][1], ",")[2] \in Seeds

\* files/<registrable domain>/<basename>.txt for the document at `url`
\* linked from `page`
ArtifactPath(page, url) ==
    LET basename == Basename(UrlPath(url))
        stem == SubSeq(basename, 1, Len(basename) - Len(ExtensionOf(url)))
    IN <<"f", "i", "l", "e", "s", "/">> \o get_domain(page) \o <<"/">>
           \o stem \o <<".", "t", "x", "t">>

(***************************************************************************)
(* C11: the URL parse_file asks for is the document's href resolved        *)
(* against the URL of the page it was found on, and every side artifact    *)
(* is files/<registrable domain>/<basename>.txt of such a document, with   *)
(* the base, parent and file headers and then the extracted text.          *)
(***************************************************************************)
C11_DocumentHrefResolved ==
    /\ \A f \in docFetches : f.url = urljoin(f.page, f.raw)
    /\ \A a \in artifacts :
          \E f \in docFetches :
              /\ a.path = ArtifactPath(f.page, urljoin(f.page, f.raw))
              /\ a.base = get_domain(f.page)
              /\ a.parent = f.page
              /\ a.text = TextOf(f.url)

\* a step of the click loop in which the page of a JavaScript link was
\* loaded and neither the click nor the retry gave the link a text
FailedClick ==
    /\ spc = "click"
    /\ li' = li + 1
    /\ links[li'].type = "JavaScript"
    /\ Len(fetchLog') = Len(fetchLog) + 1
    /\ links'[li'].text = "unset"

\* the links clickLinks has clicked: Link.click gave them a text
ClickedLinks == {k \in 1..Len(links) : links[k].text # "unset"}

(***************************************************************************)
(* C12: a JavaScript link whose click fails at the first attempt and at    *)
(* the retry is left uncounted and does not stop the school: the click     *)
(* loop goes on to the next link, and the write loop that follows it       *)
(* writes the file of every clicked link with a text and does not raise.   *)
(***************************************************************************)
C12_ClickFailureContained ==
    [][ /\ FailedClick =>
              /\ spc' \in {"click", "write"}
              /\ schools'[si].linksClicked = schools[si].linksClicked
              /\ schools'[si].scriptLinksClicked = schools[si].scriptLinksClicked
        /\ spc = "write" =>
              /\ spc' = "diag"
              /\ \A k \in ClickedLinks :
                    \/ links[k].type = "html" /\
                          \E f \in files' : f.kind = "html" /\ f.name = links[k].name
                    \/ links[k].type = "JavaScript" /\ links[k].text = ""
                    \/ links[k].type = "JavaScript" /\
                          \E f \in files' : f.kind = "JavaScript"
       ]_vars

(***************************************************************************)
(* C13: in every item parse_items has yielded, file_text is as long as     *)
(* file_urls, the m-th text is what parse_file extracted from the m-th     *)
(* URL, and the URLs stand in the order of the document links of the page. *)
(***************************************************************************)
C13_FileTextMatchesFileUrls ==
    \A n \in 1..Len(items) :
        /\ Len(items[n].file_text) = Len(items[n].file_urls)
        /\ Len(items[n].file_urls) = Len(items[n].hrefs)
        /\ \A m \in 1..Len(items[n].file_urls) :
              /\ items[n].file_urls[m] =
                     CompleteHref(items[n].hrefs[m], get_domain(items[n].url))
              /\ items[n].file_text[m] = TextOf(items[n].file_urls[m])

\* C13: an item with two different documents has been yielded
C13_Witness ==
    \E n \in 1..Len(items) :
        /\ Len(items[n].file_urls) = 2
        /\ items[n].file_urls[1] # items[n].file_urls[2]

\* the schools whose click loop has run to its end
ClickLoopOver(n) == n < si \/ (n = si /\ spc \in {"write", "diag"})

(***************************************************************************)
(* C14: after every turn of the click loop of clickLinks the counters of   *)
(* the school agree: no more links clicked than met, of either type, and   *)
(* linksClicked is the sum of the two clicked counters; once the loop is   *)
(* over, the html and JavaScript links together are totalNumberofLinks,    *)
(* the number of links gatherLinks gathered.                               *)
(***************************************************************************)
C14_CountersConsistent ==
    \A n \in 1..Len(schools) :
        /\ schools[n].htmlLinksClicked <= schools[n].htmlLinks
        /\ schools[n].scriptLinksClicked <= schools[n].scriptLinks
        /\ schools[n].linksClicked =
               schools[n].htmlLinksClicked + schools[n].scriptLinksClicked
        /\ ClickLoopOver(n) =>
               schools[n].htmlLinks + schools[n].scriptLinks =
                   schools[n].totalNumberofLinks
        /\ (n = si /\ spc \in {"write", "diag"}) =>
               schools[n].totalNumberofLinks = Len(links)

\* C14: a click loop is over in which one click succeeded and another ended
\* in a LinkException
C14_Witness ==
    /\ spc = "write"
    /\ schools[si].linksClicked >= 1
    /\ schools[si].linksClicked < schools[si].totalNumberofLinks

====
